---- MODULE Spec2Model ----
(***************************************************************************)
(* Model of src/main.py: the "Database to API Generator".                  *)
(*                                                                         *)
(*   connect_to_db          the Connector                                  *)
(*   analyze_db_structure   the Introspector                               *)
(*   the "Analyze DB Details" button handler (connect, introspect,         *)
(*                          display, persist to db_structure.json)         *)
(*   generate_fastapi_api   the Endpoint Synthesizer on the shared app     *)
(*                                                                         *)
(* A Python dict is a sequence of entries with pairwise distinct names     *)
(* (insertion order); strings are TLA+ strings, so that an f-string is a   *)
(* concatenation.                                                          *)
(***************************************************************************)
EXTENDS Naturals, Sequences, FiniteSets, TLC

VARIABLES
    file,       \* content of db_structure.json: a sequence of tokens
    last,       \* the last run of the button handler: its inputs and what it did
    committed,  \* structure of the last run whose write succeeded (history)
    app,        \* the route table of the shared FastAPI app: a sequence of routes
    frames,     \* one closure frame per run of generate_fastapi_api
    endpoints,  \* the registry returned by the last run of generate_fastapi_api
    passed,     \* the structure passed to the last run of generate_fastapi_api
    inp,        \* SpecIntrospect: the arguments of analyze_db_structure
    out,        \* SpecIntrospect: its result
    sess        \* SpecRace: the position of each concurrent session

vars == <<file, last, committed, app, frames, endpoints, passed, inp, out, sess>>

(***************************************************************************)
(* Bounds of the model.                                                    *)
(***************************************************************************)
MaxTables == 2      \* tables or collections of an introspected database
MaxEntities == 2    \* entries of a structure passed to generate_fastapi_api
MaxRuns == 2        \* runs of generate_fastapi_api on the shared app

Min(a, b) == IF a < b THEN a ELSE b

(***************************************************************************)
(* The nine database kinds of the selectbox.                               *)
(***************************************************************************)
RelationalKinds == {"PostgreSQL", "MySQL", "Microsoft SQL Server"}

Kinds ==
    {"None", "PostgreSQL", "MySQL", "Microsoft SQL Server", "SQLite", "MongoDB",
     "Amazon DynamoDB", "Firestore", "BigQuery"}

(***************************************************************************)
(* Python dicts (insertion ordered).                                       *)
(***************************************************************************)
EmptyDict == <<>>

Entry(name, kind, fields) == [name |-> name, kind |-> kind, fields |-> fields]

Keys(d) == {d[i].name : i \in DOMAIN d}

HasKey(d, name) == \E i \in DOMAIN d : d[i].name = name

\* d[name] = {kind: fields}: replaces the value in place, or appends a new key
Put(d, name, kind, fields) ==
    IF HasKey(d, name)
    THEN [i \in DOMAIN d |->
            IF d[i].name = name THEN Entry(name, kind, fields) ELSE d[i]]
    ELSE Append(d, Entry(name, kind, fields))

\* == on dicts: same keys, same values, whatever the order
DeepEqual(d, e) == {d[i] : i \in DOMAIN d} = {e[i] : i \in DOMAIN e}

\* the sequences over S of length at most n with no repeated element
RECURSIVE InjSeqs(_, _)
InjSeqs(S, n) ==
    IF n = 0 THEN {<<>>}
    ELSE LET shorter == InjSeqs(S, n - 1)
         IN  shorter \cup
             {Append(s, x) : <<s, x>> \in
                 {p \in shorter \X S : \A i \in DOMAIN p[1] : p[1][i] # p[2]}}

(***************************************************************************)
(* The database behind a connection: what the client library answers.      *)
(* A table has a name and either columns (relational kinds) or documents   *)
(* (document kinds); a document is the list of its keys.  The BigQuery     *)
(* result carries a schema.                                                *)
(***************************************************************************)
NamePool == <<"users", "orders", "items">>

TableNames == {NamePool[i] : i \in 1..Min(MaxTables, Len(NamePool))}

ColLists == {<<>>, <<"id", "name">>, <<"name", "id">>}

\* every stored MongoDB document carries _id
DocLists == {<<>>, << <<"_id", "name">> >>, << <<"_id", "name">>, <<"_id">> >>}

Table(name, cols, docs) == [name |-> name, cols |-> cols, docs |-> docs]

Database(tables, schema) == [tables |-> tables, schema |-> schema]

NoDatabase == Database(<<>>, <<>>)

RelationalDatabases ==
    UNION {{Database([i \in DOMAIN ns |-> Table(ns[i], cs[i], <<>>)], <<>>) :
                cs \in [DOMAIN ns -> ColLists]} : ns \in InjSeqs(TableNames, MaxTables)}

DocumentDatabases ==
    UNION {{Database([i \in DOMAIN ns |-> Table(ns[i], <<>>, ds[i])], <<>>) :
                ds \in [DOMAIN ns -> DocLists]} : ns \in InjSeqs(TableNames, MaxTables)}

Databases(kind) ==
    IF kind \in RelationalKinds \cup {"SQLite"} THEN RelationalDatabases
    ELSE IF kind \in {"MongoDB", "Firestore"} THEN DocumentDatabases
    ELSE IF kind = "BigQuery" THEN {Database(<<>>, cs) : cs \in ColLists}
    ELSE {NoDatabase}

CidPool == <<"0", "1", "2">>

\* cursor.execute(<table catalog query>); cursor.fetchall(): one row per table
TableCatalog(db) == [i \in DOMAIN db.tables |-> <<db.tables[i].name>>]

ColumnsNamed(db, table_name) ==
    IF \E i \in DOMAIN db.tables : db.tables[i].name = table_name
    THEN db.tables[CHOOSE i \in DOMAIN db.tables : db.tables[i].name = table_name].cols
    ELSE <<>>

\* information_schema.columns WHERE table_name = '...': rows (column_name)
InformationSchemaColumns(db, table_name) ==
    LET cols == ColumnsNamed(db, table_name)
    IN  [j \in DOMAIN cols |-> <<cols[j]>>]

\* PRAGMA table_info(...): rows (cid, name, ...)
PragmaTableInfo(db, table_name) ==
    LET cols == ColumnsNamed(db, table_name)
    IN  [j \in DOMAIN cols |-> <<CidPool[j], cols[j]>>]

\* conn.list_collection_names() / conn.collections()
CollectionNames(db) == [i \in DOMAIN db.tables |-> db.tables[i].name]

\* conn[col].find_one(): the first document, or None (the empty tuple)
FindOne(db, col) ==
    LET docs == db.tables[CHOOSE i \in DOMAIN db.tables : db.tables[i].name = col].docs
    IN  IF docs = <<>> THEN [none |-> TRUE, keys |-> <<>>]
        ELSE [none |-> FALSE, keys |-> docs[1]]

\* variant: the sample is recorded without the `if sample:` test
AlwaysTruthy(sample) == TRUE

\* the truth value of a find_one() result: None and an empty dict are falsy
Truthy(sample) == ~sample.none /\ sample.keys # <<>>

\* the external calls one introspection makes, in order; any of them may raise
NumCalls(kind, db) ==
    IF kind \in RelationalKinds \cup {"SQLite", "MongoDB"} THEN 1 + Len(db.tables)
    ELSE IF kind = "Firestore"
         THEN LET RECURSIVE Count(_)
                  Count(i) == IF i > Len(db.tables) THEN 0
                              ELSE 1 + Len(db.tables[i].docs) + Count(i + 1)
              IN  1 + Count(1)
    ELSE IF kind = "BigQuery" THEN 1
    ELSE 0

(***************************************************************************)
(* analyze_db_structure(conn, db_choice).  fail = 0: no call raises;       *)
(* fail = j: the j-th external call raises, and the except clause returns  *)
(* db_structure as it then stands.  The result is the structure and        *)
(* whether the error message was surfaced.                                 *)
(***************************************************************************)
Result(db_structure, raised) == [db_structure |-> db_structure, raised |-> raised]

\* [col[0] for col in columns] / [col[1] for col in columns]
Project(rows, k) == [j \in DOMAIN rows |-> rows[j][k]]

\* variant: the name is taken from the first column of every row, PRAGMA
\* table_info rows included
NameColumnFirst(kind) == 1

\* the column index (from 1) of the name in a column query's rows
NameColumn(kind) == IF kind = "SQLite" THEN 2 ELSE 1

ColumnRows(kind, db, table_name) ==
    IF kind = "SQLite" THEN PragmaTableInfo(db, table_name)
    ELSE InformationSchemaColumns(db, table_name)

\* lines 96-100 and 106-110: call i + 1 is the column query of tables[i]
RECURSIVE TableLoop(_, _, _, _, _, _)
TableLoop(kind, db, tables, i, fail, db_structure) ==
    IF i > Len(tables) THEN Result(db_structure, FALSE)
    ELSE IF fail = i + 1 THEN Result(db_structure, TRUE)
    ELSE LET table_name == tables[i][1]
             columns == ColumnRows(kind, db, table_name)
         IN  TableLoop(kind, db, tables, i + 1, fail,
                 Put(db_structure, table_name, "columns",
                     Project(columns, NameColumn(kind))))

\* lines 114-118: call i + 1 is find_one() on collections[i]
RECURSIVE CollectionLoop(_, _, _, _, _)
CollectionLoop(db, collections, i, fail, db_structure) ==
    IF i > Len(collections) THEN Result(db_structure, FALSE)
    ELSE IF fail = i + 1 THEN Result(db_structure, TRUE)
    ELSE LET col == collections[i]
             sample == FindOne(db, col)
         IN  CollectionLoop(db, collections, i + 1, fail,
                 IF Truthy(sample)
                 THEN Put(db_structure, col, "keys", sample.keys)
                 ELSE db_structure)

\* lines 127-128: the documents of one stream; call n + j yields document j
RECURSIVE DocLoop(_, _, _, _, _, _)
DocLoop(id, docs, j, n, fail, db_structure) ==
    IF j > Len(docs) THEN Result(db_structure, FALSE)
    ELSE IF fail = n + j THEN Result(db_structure, TRUE)
    ELSE DocLoop(id, docs, j + 1, n, fail, Put(db_structure, id, "keys", docs[j]))

\* lines 125-128: n calls were made so far; call n + 1 is col.stream()
RECURSIVE StreamLoop(_, _, _, _, _)
StreamLoop(db, i, n, fail, db_structure) ==
    IF i > Len(db.tables) THEN Result(db_structure, FALSE)
    ELSE IF fail = n + 1 THEN Result(db_structure, TRUE)
    ELSE LET col == db.tables[i]
             streamed == DocLoop(col.name, col.docs, 1, n + 1, fail, db_structure)
         IN  IF streamed.raised THEN streamed
             ELSE StreamLoop(db, i + 1, n + 1 + Len(col.docs), fail,
                             streamed.db_structure)

analyze_db_structure(db, db_choice, fail) ==
    IF db_choice \in RelationalKinds \cup {"SQLite"}
    THEN IF fail = 1 THEN Result(EmptyDict, TRUE)
         ELSE TableLoop(db_choice, db, TableCatalog(db), 1, fail, EmptyDict)
    ELSE IF db_choice = "MongoDB"
    THEN IF fail = 1 THEN Result(EmptyDict, TRUE)
         ELSE CollectionLoop(db, CollectionNames(db), 1, fail, EmptyDict)
    ELSE IF db_choice = "Amazon DynamoDB"
    THEN Result(Put(EmptyDict, db_choice, "columns", <<"Primary Key", "Attributes">>),
                FALSE)
    ELSE IF db_choice = "Firestore"
    THEN IF fail = 1 THEN Result(EmptyDict, TRUE)
         ELSE StreamLoop(db, 1, 1, fail, EmptyDict)
    ELSE IF db_choice = "BigQuery"
    THEN IF fail = 1 THEN Result(EmptyDict, TRUE)
         ELSE Result(Put(EmptyDict, db_choice, "columns", db.schema), FALSE)
    ELSE Result(EmptyDict, FALSE)

(***************************************************************************)
(* SpecIntrospect: analyze_db_structure on every kind, database and        *)
(* failure point within the bounds.                                        *)
(***************************************************************************)
Inputs ==
    UNION {UNION {{[db_choice |-> k, db |-> db, fail |-> f] :
                        f \in 0..NumCalls(k, db)} : db \in Databases(k)} :
           k \in Kinds \ {"None"}}

NoInput == [db_choice |-> "None", db |-> NoDatabase, fail |-> 0]

NoOutput == [done |-> FALSE, db_structure |-> EmptyDict, raised |-> FALSE]

(***************************************************************************)
(* db_structure.json.  json.dump writes "{", one member per entry in dict  *)
(* order, and "}"; json.load reads the members back into a dict, a later   *)
(* member of the same name replacing an earlier one, and rejects a text    *)
(* that is not a complete object.                                          *)
(***************************************************************************)
NoEntry == Entry("", "", <<>>)

Tok(t, e) == [tok |-> t, entry |-> e]

Dump(d) ==
    <<Tok("{", NoEntry)>> \o [i \in DOMAIN d |-> Tok("member", d[i])]
        \o <<Tok("}", NoEntry)>>

RECURSIVE LoadMembers(_, _, _)
LoadMembers(f, i, d) ==
    IF i >= Len(f) THEN d
    ELSE LoadMembers(f, i + 1, Put(d, f[i].entry.name, f[i].entry.kind, f[i].entry.fields))

WellFormed(f) ==
    /\ Len(f) >= 2
    /\ f[1].tok = "{"
    /\ f[Len(f)].tok = "}"
    /\ \A i \in 2..(Len(f) - 1) : f[i].tok = "member"

Load(f) ==
    IF WellFormed(f) THEN [ok |-> TRUE, value |-> LoadMembers(f, 2, EmptyDict)]
    ELSE [ok |-> FALSE, value |-> EmptyDict]

\* variant: the file is opened in append mode and keeps its content
OpenForAppending(f) == f

\* open("db_structure.json", "w"): the file is truncated when it is opened
OpenForWriting(f) == <<>>

\* the write outcomes of lines 204-209: the whole text is written; open()
\* raises and the file stays as it was; or the dump raises after open()
\* truncated the file, and only a proper prefix of the text reached it (the
\* shortest and the longest one are enumerated)
WriteOutcomes(d) ==
    {[how |-> "ok", kept |-> Len(Dump(d))], [how |-> "open_raises", kept |-> 0]}
        \cup {[how |-> "dump_raises", kept |-> n] : n \in {0, Len(Dump(d)) - 1}}

WriteFile(f, d, w) ==
    IF w.how = "open_raises" THEN f
    ELSE OpenForWriting(f) \o SubSeq(Dump(d), 1, w.kept)

(***************************************************************************)
(* connect_to_db.  For "None" no branch binds conn and `return conn`       *)
(* raises inside the try; for the other kinds the construction raises or   *)
(* not.  Either way the except clause surfaces one message and returns     *)
(* None.                                                                   *)
(***************************************************************************)
None == [none |-> TRUE, db |-> NoDatabase]

Connection(db) == [none |-> FALSE, db |-> db]

Connected(conn, messages) == [conn |-> conn, messages |-> messages]

\* variant: the except clause surfaces the message and the connection object
\* is returned all the same
connect_ignoring_failure(db_choice, db, constructs) ==
    IF db_choice # "None" /\ constructs
    THEN Connected(Connection(db), <<>>)
    ELSE Connected(Connection(db), <<"error: connecting">>)

connect_to_db(db_choice, db, constructs) ==
    IF db_choice # "None" /\ constructs
    THEN Connected(Connection(db), <<>>)
    ELSE Connected(None, <<"error: connecting">>)

\* `if conn:` on what connect_to_db returned: None is falsy; the truth value
\* of a pymongo Database is not implemented and raises
TruthOutcomes(db_choice, conn) ==
    IF conn.none THEN {"falsy"}
    ELSE IF db_choice = "MongoDB" THEN {"truthy", "raises"}
    ELSE {"truthy"}

(***************************************************************************)
(* The databases a session of the button handler connects to: one with no  *)
(* table, and one with the first MaxTables tables of the pool, each with   *)
(* its fixed content (the second collection is empty).                     *)
(***************************************************************************)
PoolIndex(name) == CHOOSE i \in DOMAIN NamePool : NamePool[i] = name

PoolCols(name) == <<<<"id", "name">>, <<"name", "id">>, <<>>>>[PoolIndex(name)]

PoolDocs(name) ==
    <<<< <<"_id", "name">>, <<"_id">> >>, <<>>, << <<"_id", "name">> >>>>[PoolIndex(name)]

PoolPrefixes == {<<>>, SubSeq(NamePool, 1, Min(MaxTables, Len(NamePool)))}

SessionDatabases(kind) ==
    IF kind \in RelationalKinds \cup {"SQLite"}
    THEN {Database([i \in DOMAIN ns |-> Table(ns[i], PoolCols(ns[i]), <<>>)], <<>>) :
             ns \in PoolPrefixes}
    ELSE IF kind \in {"MongoDB", "Firestore"}
    THEN {Database([i \in DOMAIN ns |-> Table(ns[i], <<>>, PoolDocs(ns[i]))], <<>>) :
             ns \in PoolPrefixes}
    ELSE IF kind = "BigQuery" THEN {Database(<<>>, <<"id", "name">>)}
    ELSE {NoDatabase}

(***************************************************************************)
(* The "Analyze DB Details" button handler, lines 196-209, as one run of   *)
(* the script: its inputs are the selected kind, the database reached,     *)
(* and what each external step does.                                       *)
(***************************************************************************)
NotWritten == [how |-> "none", kept |-> 0]

NothingCommitted == [has |-> FALSE, db_structure |-> EmptyDict]

Committed(d) == [has |-> TRUE, db_structure |-> d]

Run(db_choice, db, constructs, truth, fail, displays, written) ==
    [pressed |-> TRUE,
     db_choice |-> db_choice, db |-> db, constructs |-> constructs, truth |-> truth,
     fail |-> fail, displays |-> displays, written |-> written,
     introspected |-> FALSE, db_structure |-> EmptyDict, raised |-> FALSE,
     messages |-> <<>>, escaped |-> FALSE]

\* the button was not pressed yet
NoRun == [Run("None", NoDatabase, FALSE, "falsy", 0, TRUE, NotWritten)
              EXCEPT !.pressed = FALSE]

\* lines 204-209: the messages of the guarded write
SaveMessages(w) ==
    IF w.how = "ok" THEN <<"success: saved">> ELSE <<"error: saving">>

\* the state after the handler ran on input run `in`, from file f and history c
Handle(f, c, in) ==
    LET connected == connect_to_db(in.db_choice, in.db, in.constructs)
        conn == connected.conn
        analyzed == analyze_db_structure(conn.db, in.db_choice, in.fail)
        analysis == IF analyzed.raised THEN <<"error: analyzing">> ELSE <<>>
    IN  IF in.truth = "falsy"              \* line 199: nothing more runs
        THEN [file |-> f, committed |-> c,
              last |-> [in EXCEPT !.messages = connected.messages]]
        ELSE IF in.truth = "raises"        \* line 199 raises: nothing catches it
        THEN [file |-> f, committed |-> c,
              last |-> [in EXCEPT !.messages = connected.messages,
                                  !.escaped = TRUE]]
        ELSE IF ~in.displays               \* line 201 raises: nothing catches it
        THEN [file |-> f, committed |-> c,
              last |-> [in EXCEPT !.introspected = TRUE,
                                  !.db_structure = analyzed.db_structure,
                                  !.raised = analyzed.raised,
                                  !.messages = connected.messages \o analysis,
                                  !.escaped = TRUE]]
        ELSE [file |-> WriteFile(f, analyzed.db_structure, in.written),
              committed |-> IF in.written.how = "ok"
                            THEN Committed(analyzed.db_structure) ELSE c,
              last |-> [in EXCEPT !.introspected = TRUE,
                                  !.db_structure = analyzed.db_structure,
                                  !.raised = analyzed.raised,
                                  !.messages = connected.messages \o analysis
                                      \o <<"write: structure">>
                                      \o SaveMessages(in.written)]]

AnalyzeDBDetails ==
    \E db_choice \in Kinds, constructs \in BOOLEAN :
      \E db \in (IF db_choice # "None" /\ constructs
                 THEN SessionDatabases(db_choice) ELSE {NoDatabase}) :
        \E truth \in TruthOutcomes(db_choice, connect_to_db(db_choice, db, constructs).conn) :
          \E fail \in (IF truth = "truthy" THEN 0..NumCalls(db_choice, db) ELSE {0}),
             displays \in (IF truth = "truthy" THEN BOOLEAN ELSE {TRUE}) :
            \E written \in (IF truth = "truthy" /\ displays
                            THEN WriteOutcomes(
                                     analyze_db_structure(db, db_choice, fail).db_structure)
                            ELSE {NotWritten}) :
              LET after == Handle(file, committed,
                               Run(db_choice, db, constructs, truth, fail, displays, written))
              IN  /\ (db_choice = "None" => ~constructs)
                  /\ file' = after.file
                  /\ committed' = after.committed
                  /\ last' = after.last
                  /\ UNCHANGED <<app, frames, endpoints, passed, inp, out, sess>>

(***************************************************************************)
(* generate_fastapi_api(db_structure), lines 141-167.                      *)
(*                                                                         *)
(* A run has one frame holding its local variables table, columns and      *)
(* keys.  The two handlers it defines are closures over that frame: they   *)
(* read the variables when they are called, not when they are defined.     *)
(* app.get(path) appends a route to the app's route table.                 *)
(***************************************************************************)
Frame(table, columns, keys) == [table |-> table, columns |-> columns, keys |-> keys]

NewFrame == Frame("", <<>>, <<>>)

Route(path, handler, frame) == [path |-> path, handler |-> handler, frame |-> frame]

\* variant: registering a path drops the routes already registered for it
RegisterReplacing(routes, path, handler, frame) ==
    Append(SelectSeq(routes, LAMBDA r : r.path # path), Route(path, handler, frame))

\* @app.get(path) on a handler closing over the frame of run number `frame`
Register(routes, path, handler, frame) == Append(routes, Route(path, handler, frame))

\* endpoints[table] = path
Bind(registry, table, path) ==
    IF \E i \in DOMAIN registry : registry[i].name = table
    THEN [i \in DOMAIN registry |->
            IF registry[i].name = table THEN [name |-> table, path |-> path]
            ELSE registry[i]]
    ELSE Append(registry, [name |-> table, path |-> path])

\* line 149: f"/{table}/{{id}}"
TablePath(table) == "/" \o table \o "/{id}"

\* line 158: f"/{table}"
CollectionPath(table) == "/" \o table

Generated(routes, frame, registry) ==
    [app |-> routes, frame |-> frame, endpoints |-> registry]

\* lines 144-162: entry i of db_structure, in run number `run`
RECURSIVE ItemLoop(_, _, _, _, _, _)
ItemLoop(db_structure, i, run, routes, frame, registry) ==
    IF i > Len(db_structure) THEN Generated(routes, frame, registry)
    ELSE LET table == db_structure[i].name
             metadata == db_structure[i]
         IN  IF metadata.kind = "columns"
             THEN ItemLoop(db_structure, i + 1, run,
                      Register(routes, TablePath(table), "get_table_data", run),
                      [frame EXCEPT !.table = table, !.columns = metadata.fields],
                      Bind(registry, table, TablePath(table)))
             ELSE ItemLoop(db_structure, i + 1, run,
                      Register(routes, CollectionPath(table), "get_collection_data", run),
                      [frame EXCEPT !.table = table, !.keys = metadata.fields],
                      Bind(registry, table, CollectionPath(table)))

\* one run on the shared app, as run number `run`
generate_fastapi_api(routes, run, db_structure) ==
    ItemLoop(db_structure, 1, run, routes, NewFrame, <<>>)

\* what the handler of a route answers when it is called with path parameter id
Response(kind, name, fields, data) ==
    [kind |-> kind, name |-> name, fields |-> fields, data |-> data]

Call(route, fs, id) ==
    LET frame == fs[route.frame]
    IN  IF route.handler = "get_table_data"
        THEN Response("table", frame.table, frame.columns,
                      "SELECT * FROM " \o frame.table \o " WHERE id = " \o id)
        ELSE Response("collection", frame.table, frame.keys, "")

(***************************************************************************)
(* The structures passed to generate_fastapi_api: up to MaxEntities        *)
(* entries of distinct names, each with a column list or a key list.       *)
(***************************************************************************)
EntityNames == {"users", "orders", "users/{id}"}

EntityFields(name) ==
    IF name = "users" THEN <<"id", "name">>
    ELSE IF name = "orders" THEN <<"id">>
    ELSE <<"_id">>

Structures ==
    UNION {{[i \in DOMAIN ns |-> Entry(ns[i], ks[i], EntityFields(ns[i]))] :
                ks \in [DOMAIN ns -> {"columns", "keys"}]} :
           ns \in InjSeqs(EntityNames, MaxEntities)}

GenerateFastapiApi ==
    /\ Len(frames) < MaxRuns
    /\ \E db_structure \in Structures :
         LET run == generate_fastapi_api(app, Len(frames) + 1, db_structure)
         IN  /\ app' = run.app
             /\ frames' = Append(frames, run.frame)
             /\ endpoints' = run.endpoints
             /\ passed' = db_structure
    /\ UNCHANGED <<file, last, committed, inp, out, sess>>

(***************************************************************************)
(* analyze_db_structure applied to the drawn arguments.                    *)
(***************************************************************************)
Introspect ==
    /\ ~out.done
    /\ LET r == analyze_db_structure(inp.db, inp.db_choice, inp.fail)
       IN  out' = [done |-> TRUE, db_structure |-> r.db_structure, raised |-> r.raised]
    /\ UNCHANGED <<file, last, committed, app, frames, endpoints, passed, inp, sess>>

(***************************************************************************)
(* Two sessions of the hosting process run lines 204-207 concurrently,     *)
(* each in its own thread with its own file object: open() truncates the   *)
(* one file, every write goes to the writer's own offset, and nothing      *)
(* orders the steps of one session against those of the other.             *)
(***************************************************************************)
Sessions == {1, 2}

Hole == Tok("hole", NoEntry)

\* variant: every write goes to the end of the file (append mode)
WriteAtEnd(f, i, t) == Append(f, t)

\* a write of one token at position i (from 1) of the file; the gap a
\* truncation by the other session left before it reads as holes
WriteAt(f, i, t) ==
    IF i <= Len(f) THEN [f EXCEPT ![i] = t]
    ELSE f \o [j \in 1..(i - 1 - Len(f)) |-> Hole] \o <<t>>

\* the structures the concurrent sessions have introspected
SessionStructures ==
    {analyze_db_structure(db, "SQLite", 0).db_structure : db \in SessionDatabases("SQLite")}
        \cup {analyze_db_structure(db, "MongoDB", 0).db_structure :
                 db \in SessionDatabases("MongoDB")}

Idle == [pc |-> "idle", db_structure |-> EmptyDict, pos |-> 0]

\* lines 197-201 of session s: it holds its structure and reaches the write
Introspected(s) ==
    /\ sess[s].pc = "idle"
    /\ \E d \in SessionStructures :
         sess' = [sess EXCEPT ![s] = [pc |-> "open", db_structure |-> d, pos |-> 0]]
    /\ UNCHANGED <<file, last, committed, app, frames, endpoints, passed, inp, out>>

\* line 205
OpenFile(s) ==
    /\ sess[s].pc = "open"
    /\ file' = OpenForWriting(file)
    /\ sess' = [sess EXCEPT ![s].pc = "dump"]
    /\ UNCHANGED <<last, committed, app, frames, endpoints, passed, inp, out>>

\* line 206: the next token of the session's text reaches the file
WriteToken(s) ==
    /\ sess[s].pc = "dump"
    /\ sess[s].pos < Len(Dump(sess[s].db_structure))
    /\ file' = WriteAt(file, sess[s].pos + 1, Dump(sess[s].db_structure)[sess[s].pos + 1])
    /\ sess' = [sess EXCEPT ![s].pos = @ + 1]
    /\ UNCHANGED <<last, committed, app, frames, endpoints, passed, inp, out>>

\* line 207: the file is closed and the success message is shown
ShowSuccess(s) ==
    /\ sess[s].pc = "dump"
    /\ sess[s].pos = Len(Dump(sess[s].db_structure))
    /\ sess' = [sess EXCEPT ![s].pc = "saved"]
    /\ UNCHANGED <<file, last, committed, app, frames, endpoints, passed, inp, out>>

(***************************************************************************)
(* Initial state: the script has started; no file, no route.               *)
(***************************************************************************)
Init ==
    /\ file = <<>>
    /\ last = NoRun
    /\ committed = NothingCommitted
    /\ app = <<>>
    /\ frames = <<>>
    /\ endpoints = EmptyDict
    /\ passed = EmptyDict
    /\ inp = NoInput
    /\ out = NoOutput
    /\ sess = <<>>

\* the button handler, one run at a time
NextAnalyze == AnalyzeDBDetails

SpecAnalyze == Init /\ [][NextAnalyze]_vars

\* runs of generate_fastapi_api on the shared app
NextApi == GenerateFastapiApi

SpecApi == Init /\ [][NextApi]_vars

\* analyze_db_structure on drawn arguments
InitIntrospect ==
    /\ inp \in Inputs
    /\ out = NoOutput
    /\ file = <<>>
    /\ last = NoRun
    /\ committed = NothingCommitted
    /\ app = <<>>
    /\ frames = <<>>
    /\ endpoints = EmptyDict
    /\ passed = EmptyDict
    /\ sess = <<>>

NextIntrospect == Introspect

SpecIntrospect == InitIntrospect /\ [][NextIntrospect]_vars

\* two concurrent sessions writing db_structure.json, which holds an older
\* structure
InitRace ==
    /\ file = Dump(analyze_db_structure(
                       Database(<<Table("users", <<"id", "name">>, <<>>),
                                  Table("orders", <<"name", "id">>, <<>>),
                                  Table("items", <<>>, <<>>)>>, <<>>),
                       "PostgreSQL", 0).db_structure)
    /\ sess = [s \in Sessions |-> Idle]
    /\ last = NoRun
    /\ committed = NothingCommitted
    /\ app = <<>>
    /\ frames = <<>>
    /\ endpoints = EmptyDict
    /\ passed = EmptyDict
    /\ inp = NoInput
    /\ out = NoOutput

NextRace ==
    \E s \in Sessions :
        \/ Introspected(s)
        \/ OpenFile(s)
        \/ WriteToken(s)
        \/ ShowSuccess(s)

SpecRace == InitRace /\ [][NextRace]_vars

(***************************************************************************)
(*                               Properties                                *)
(***************************************************************************)

\* the tables of the introspected database, as the catalog lists them
CatalogNames(db) == {db.tables[i].name : i \in DOMAIN db.tables}

\* C1: for every relational kind (PostgreSQL, MySQL, Microsoft SQL Server,
\* SQLite) and every catalog content, when no query fails, the returned
\* mapping has exactly the catalog's table names as keys, one entry per
\* name, and each entry is {"columns": L} with L the table's column names in
\* the order the column query returned them.
C1_StructureMatchesCatalog ==
    (out.done /\ inp.fail = 0 /\ inp.db_choice \in RelationalKinds \cup {"SQLite"}) =>
        /\ ~out.raised
        /\ Keys(out.db_structure) = CatalogNames(inp.db)
        /\ Len(out.db_structure) = Len(inp.db.tables)
        /\ \A i \in DOMAIN inp.db.tables :
             \E j \in DOMAIN out.db_structure :
                 out.db_structure[j] =
                     [name |-> inp.db.tables[i].name, kind |-> "columns",
                      fields |-> inp.db.tables[i].cols]

\* C1 witness: a SQLite database of two tables, one with two columns, was
\* introspected without failure.
C1_Witness ==
    /\ out.done
    /\ inp.fail = 0
    /\ inp.db_choice = "SQLite"
    /\ Len(inp.db.tables) = 2
    /\ inp.db.tables[2].cols = <<"name", "id">>
    /\ Len(out.db_structure) = 2

\* C6: for MongoDB, when no call fails, the returned mapping has one entry
\* {"keys": K} for every collection holding at least one document, K being
\* the keys of the sampled (first) document, and no entry for a collection
\* with zero documents.
C6_SampledKeysOrNoEntry ==
    (out.done /\ inp.fail = 0 /\ inp.db_choice = "MongoDB") =>
        \A i \in DOMAIN inp.db.tables :
            LET c == inp.db.tables[i]
            IN  IF c.docs = <<>>
                THEN c.name \notin Keys(out.db_structure)
                ELSE /\ Cardinality({j \in DOMAIN out.db_structure :
                                        out.db_structure[j].name = c.name}) = 1
                     /\ \E j \in DOMAIN out.db_structure :
                            out.db_structure[j] =
                                [name |-> c.name, kind |-> "keys", fields |-> c.docs[1]]

\* C6 witness: a MongoDB database with an empty collection and a non-empty
\* one was introspected without failure.
C6_Witness ==
    /\ out.done
    /\ inp.fail = 0
    /\ inp.db_choice = "MongoDB"
    /\ Len(inp.db.tables) = 2
    /\ inp.db.tables[1].docs = <<>>
    /\ inp.db.tables[2].docs # <<>>
    /\ Len(out.db_structure) = 1

\* the last run failed to connect: the construction raised, or no kind was
\* selected
ConnectionFailed(run) == run.pressed /\ ~run.constructs

\* C2: when connection construction raises, connect_to_db surfaces one error
\* message and returns None, and the analyze action then runs no
\* introspection, leaves db_structure.json unchanged, shows no save-success
\* message and registers no endpoint.
C2_FailedConnectionDoesNothing ==
    /\ [](ConnectionFailed(last) =>
            /\ last.messages = <<"error: connecting">>
            /\ last.truth = "falsy"
            /\ ~last.introspected
            /\ ~last.escaped)
    /\ [][ConnectionFailed(last') => (file' = file /\ app' = app /\ endpoints' = endpoints)]_vars

\* C2 witness: a PostgreSQL connection failed after an earlier run had saved
\* a structure.
C2_Witness ==
    /\ ConnectionFailed(last)
    /\ last.db_choice = "PostgreSQL"
    /\ Len(file) > 2
    /\ committed.has

\* C3 as claimed: after any sequence of analyze actions, the file reloads to
\* a mapping deep-equal to the structure of the most recent action that
\* obtained a connection and whose write succeeded.
C3_FileHoldsLastSuccessfulWrite ==
    committed.has =>
        /\ Load(file).ok
        /\ DeepEqual(Load(file).value, committed.db_structure)

\* the run opened db_structure.json for writing
Opened(run) == run.written.how \in {"ok", "dump_raises"}

IsPrefix(p, q) == Len(p) <= Len(q) /\ SubSeq(q, 1, Len(p)) = p

\* C3 as amended: the file holds only what the most recent action that
\* opened it wrote: an action whose write succeeds leaves a text that
\* reloads to a mapping deep-equal to its structure, an action whose write
\* fails after the open leaves a truncated prefix of its own text that does
\* not reload, and an action that does not open the file leaves it as it
\* was; so whenever the file reloads, it is deep-equal to the structure of
\* the most recent action whose write succeeded.
C3_FileHoldsLastOpenersText ==
    /\ []((committed.has /\ Load(file).ok) =>
            DeepEqual(Load(file).value, committed.db_structure))
    /\ [][IF Opened(last')
          THEN /\ IsPrefix(file', Dump(last'.db_structure))
               /\ last'.written.how = "ok" =>
                      (Load(file').ok /\ DeepEqual(Load(file').value, last'.db_structure))
               /\ last'.written.how = "dump_raises" => ~Load(file').ok
          ELSE file' = file]_vars

\* C3 witness: after a successful write of a non-empty structure, a later
\* action's write failed past the open and left a truncated file.
C3_Witness ==
    /\ committed.has
    /\ committed.db_structure # EmptyDict
    /\ last.written.how = "dump_raises"
    /\ last.db_structure # committed.db_structure
    /\ ~Load(file).ok

\* C7: for every database kind and every failure during an analyze action
\* (connecting, testing the returned connection, introspecting, displaying,
\* persisting) the failure is caught where it occurs and turned into a
\* user-facing message; no exception escapes the analyze action.
C7_NoExceptionEscapes ==
    last.pressed =>
        /\ ~last.escaped
        /\ (\/ ~last.constructs
            \/ last.truth = "raises"
            \/ last.raised
            \/ ~last.displays
            \/ last.written.how \in {"open_raises", "dump_raises"}) =>
               \E i \in DOMAIN last.messages :
                   last.messages[i] \in
                       {"error: connecting", "error: analyzing", "error: saving"}

\* the number of tables or collections completely processed before call
\* number `fail` raised
RECURSIVE FirestoreDone(_, _, _, _)
FirestoreDone(db, i, n, fail) ==
    IF i > Len(db.tables) THEN Len(db.tables)
    ELSE IF fail <= n + 1 + Len(db.tables[i].docs) THEN i - 1
    ELSE FirestoreDone(db, i + 1, n + 1 + Len(db.tables[i].docs), fail)

Processed(db_choice, db, fail) ==
    IF fail <= 1 THEN 0
    ELSE IF db_choice = "Firestore" THEN FirestoreDone(db, 1, 1, fail)
    ELSE fail - 2

\* the database holding only the first k tables of db
FirstTables(db, k) == Database(SubSeq(db.tables, 1, k), db.schema)

\* the entries of the first k tables or collections, as an introspection
\* that does not fail gives them (the one BigQuery query gives none when it
\* fails)
CompletedEntries(db_choice, db, k) ==
    IF db_choice = "BigQuery" THEN EmptyDict
    ELSE analyze_db_structure(FirstTables(db, k), db_choice, 0).db_structure

\* C8: if introspection raises after k tables or collections have been
\* processed, one error message is surfaced and exactly the entries of
\* those k are returned, each as a complete introspection gives it; the
\* action then writes the partial mapping and shows the same success
\* message as for a complete one.
C8_PartialStructureIsPrefix ==
    (last.introspected /\ last.raised) =>
        LET k == Processed(last.db_choice, last.db, last.fail)
        IN  /\ last.db_structure = CompletedEntries(last.db_choice, last.db, k)
            /\ Cardinality({i \in DOMAIN last.messages :
                               last.messages[i] = "error: analyzing"}) = 1
            /\ (last.displays /\ last.written.how = "ok") =>
                   /\ Load(file).ok
                   /\ DeepEqual(Load(file).value, last.db_structure)
                   /\ last.messages[Len(last.messages)] = "success: saved"

\* the routes the last run of generate_fastapi_api registered, in the order
\* of the entries of the structure it was passed
OwnRoute(i) == app[Len(app) - Len(passed) + i]

Columnar(d) == {i \in DOMAIN d : d[i].kind = "columns"}

KeyBased(d) == {i \in DOMAIN d : d[i].kind = "keys"}

\* C4: for a structure with N columnar and M key-based entities, one run
\* registers exactly N+M pairwise distinct paths, /{entity}/{id} for each
\* columnar entity and /{entity} for each key-based one, and returns a
\* mapping sending each entity name to exactly the path registered for it.
C4_DistinctPathPerEntity ==
    frames # <<>> =>
        LET n == Cardinality(Columnar(passed))
            m == Cardinality(KeyBased(passed))
            paths == {OwnRoute(i).path : i \in DOMAIN passed}
        IN  /\ Len(app) >= n + m
            /\ Cardinality(paths) = n + m
            /\ \A i \in Columnar(passed) :
                   OwnRoute(i).path = "/" \o passed[i].name \o "/{id}"
            /\ \A i \in KeyBased(passed) :
                   OwnRoute(i).path = "/" \o passed[i].name
            /\ Len(endpoints) = Len(passed)
            /\ \A i \in DOMAIN passed :
                   \E j \in DOMAIN endpoints :
                       endpoints[j] = [name |-> passed[i].name, path |-> OwnRoute(i).path]

\* C5: each handler captures a snapshot of its own entity: after the run,
\* a GET on the route registered for entity E answers with E's name and E's
\* own column or key list, and for a columnar E the query string names E.
C5_HandlerAnswersForOwnEntity ==
    frames # <<>> =>
        \A i \in DOMAIN passed :
            LET answer == Call(OwnRoute(i), frames, "7")
            IN  /\ answer.name = passed[i].name
                /\ answer.fields = passed[i].fields
                /\ passed[i].kind = "columns" =>
                       /\ answer.kind = "table"
                       /\ answer.data =
                              "SELECT * FROM " \o passed[i].name \o " WHERE id = 7"
                /\ passed[i].kind = "keys" => answer.kind = "collection"

FromSomeWriter(i) ==
    \/ file[i] = Hole
    \/ \E t \in Sessions :
           /\ sess[t].pc \in {"dump", "saved"}
           /\ i <= sess[t].pos
           /\ file[i] = Dump(sess[t].db_structure)[i]

\* C9: the write of db_structure.json is unguarded.  Once a session has
\* shown its success message the file holds, cell by cell, only what the
\* writing sessions wrote (that session's text, the other session's, or an
\* interleaving of both) and nothing older; it holds that session's own text
\* when no other session has opened the file.  The state in which a session
\* has shown its success message while the file does not hold its
\* structure is reachable (C9_Witness).
C9_SavedFileIsSomeInterleaving ==
    \A s \in Sessions :
        sess[s].pc = "saved" =>
            /\ \A i \in DOMAIN file : FromSomeWriter(i)
            /\ (\A t \in Sessions \ {s} : sess[t].pc \in {"idle", "open"}) =>
                   file = Dump(sess[s].db_structure)

\* C9 witness: both sessions have shown their success message and the
\* file holds the structure of neither: it does not even reload.
C9_Witness ==
    /\ \A s \in Sessions : sess[s].pc = "saved"
    /\ sess[1].db_structure # sess[2].db_structure
    /\ \A s \in Sessions : file # Dump(sess[s].db_structure)
    /\ ~Load(file).ok

====
